---- MODULE Spec2Model ----
(***************************************************************************)
(* botXiv (src/main.py): a process that once at start and then once a day  *)
(* loads a weighted keyword/author file, fetches the arXiv catch-up page,  *)
(* scores every listed paper, writes a digest file and posts it to Slack.  *)
(*                                                                         *)
(* Text is modelled as a sequence of atoms (Str): an atom is a character   *)
(* of the variable data or a literal chunk of an f-string.  A Python value *)
(* that may be None is a sequence of length 0 (None) or 1.  A Python dict  *)
(* is the sequence of its <<key, value>> pairs in insertion order.         *)
(***************************************************************************)
EXTENDS Integers, Sequences, FiniteSets, TLC

\* ------------------------------------------------------------------ bounds
MaxTitleLen == 2
MaxAuthors == 12
MaxEntries == 2
MaxDate == 1

\* ------------------------------------------------------------ str helpers
None == <<>>
Some(x) == <<x>>

Min(a, b) == IF a <= b THEN a ELSE b

\* str.lower() on one atom: only the letters of the model's alphabet change.
LowerAtom(c) ==
  CASE c = "A" -> "a"
    [] c = "B" -> "b"
    [] c = "Q" -> "q"
    [] OTHER -> c

\* str.lower()
Lower(s) == [i \in 1..Len(s) |-> LowerAtom(s[i])]

\* Python's s[a:] and s[a:-1] for a >= 0.
SliceFrom(s, a) == SubSeq(s, Min(a, Len(s)) + 1, Len(s))
SliceFromToLast(s, a) == SubSeq(s, Min(a, Len(s)) + 1, Len(s) - 1)
\* Python's l[:n] for n >= 0 (a new list).
SliceTo(l, n) == SubSeq(l, 1, Min(n, Len(l)))

\* Python's `needle in hay` on str.
StartsAt(needle, hay, i) ==
  /\ i + Len(needle) - 1 <= Len(hay)
  /\ SubSeq(hay, i, i + Len(needle) - 1) = needle
In(needle, hay) == \E i \in 1..(Len(hay) + 1) : StartsAt(needle, hay, i)

\* Python's sep.join(list) on a list of str.
RECURSIVE Join(_, _)
Join(sep, l) ==
  IF Len(l) = 0 THEN <<>>
  ELSE IF Len(l) = 1 THEN l[1]
  ELSE l[1] \o sep \o Join(sep, Tail(l))

\* Python's s.split(sep) for a non-empty sep: never an empty list.
RECURSIVE Split(_, _)
Split(s, sep) ==
  LET hits == {i \in 1..Len(s) : StartsAt(sep, s, i)}
  IN  IF hits = {} THEN <<s>>
      ELSE LET i == CHOOSE k \in hits : \A m \in hits : k <= m
           IN  <<SubSeq(s, 1, i - 1)>> \o Split(SubSeq(s, i + Len(sep), Len(s)), sep)

\* ------------------------------------------------------------ dict helpers
\* d[key] on a dict with that key.
Lookup(d, key) == LET i == CHOOSE k \in 1..Len(d) : d[k][1] = key IN d[i][2]
HasKey(d, key) == \E k \in 1..Len(d) : d[k][1] = key

\* Sum of a list of integers, accumulated left to right.
RECURSIVE SumSeq(_)
SumSeq(l) == IF Len(l) = 0 THEN 0 ELSE l[1] + SumSeq(Tail(l))

\* ------------------------------------------------------------ class Paper
\* A matching that forgets to lowercase the phrase.
RECURSIVE get_kw_matches_CaseSensitive(_, _)
get_kw_matches_CaseSensitive(phrase, keyword_list) ==
  IF Len(keyword_list) = 0 THEN <<>>
  ELSE LET keyword == keyword_list[1][1]
       IN  (IF In(Lower(keyword), phrase) THEN <<keyword>> ELSE <<>>)
             \o get_kw_matches_CaseSensitive(phrase, Tail(keyword_list))

\* Paper.get_kw_matches: the keys of keyword_list, in dict order, whose
\* lowercased form occurs in the lowercased phrase.
RECURSIVE get_kw_matches(_, _)
get_kw_matches(phrase, keyword_list) ==
  IF Len(keyword_list) = 0 THEN <<>>
  ELSE LET keyword == keyword_list[1][1]
       IN  (IF In(Lower(keyword), Lower(phrase)) THEN <<keyword>> ELSE <<>>)
             \o get_kw_matches(phrase, Tail(keyword_list))

\* The weight loops of Paper.__init__.
Weight(kw_match, author_match, KW, AU) ==
  SumSeq([i \in 1..Len(kw_match) |-> Lookup(KW, kw_match[i])])
    + SumSeq([i \in 1..Len(author_match) |-> Lookup(AU, author_match[i])])

\* A relevance test with an exclusive bound.
IsRelevantStrict(weight, thr) == weight > thr

\* self.is_relevant
IsRelevant(weight, thr) == weight >= thr

\* Paper.__init__ raises AttributeError when soup.find(...) returns None.
PaperInitRaises(soup) ==
  soup.title = None \/ soup.authors = None \/ soup.abstract = None

\* Paper.__init__ on a soup holding the three fields.
PaperInit(reference, soup, KW, AU, thr) ==
  LET title == SliceFromToLast(soup.title[1], 8)
      authors == Split(SliceFromToLast(soup.authors[1], 10), <<",", " ", "\n">>)
      kw_match == get_kw_matches(title, KW)
      author_match == get_kw_matches(Join(<<" ">>, authors), AU)
      weight == Weight(kw_match, author_match, KW, AU)
  IN  [reference |-> reference, title |-> title, authors |-> authors,
       abstract |-> soup.abstract[1], kw_match |-> kw_match,
       author_match |-> author_match, weight |-> weight,
       is_relevant |-> IsRelevant(weight, thr)]

\* A reduced author list built on self.authors itself instead of a slice of it.
PrintAuthorsAliased(authors) ==
  LET appended == IF Len(authors) > 9
                  THEN authors \o <<(<<"...">>)>> \o <<(<<"...">>)>>
                  ELSE authors
  IN  [print |-> appended, stored |-> appended]

\* The reduced author list of get_mrkdwn_text and the author list left in
\* self: the slice is a new list, so the appends do not reach self.authors.
PrintAuthors(authors) ==
  LET print_authors == SliceTo(authors, 9)
  IN  [print |-> IF Len(authors) > 9
                 THEN print_authors \o <<(<<"...">>)>> \o <<authors[Len(authors)]>>
                 ELSE print_authors,
       stored |-> authors]

\* Paper.get_mrkdwn_text: the text returned and self after the call.
get_mrkdwn_text(self, abstract) ==
  LET pa == PrintAuthors(self.authors)
      md_list ==
        << <<"<https://arxiv.org/abs/">> \o self.reference \o <<"|*">> \o self.title \o <<"*>">>,
           <<"Authors: ">> \o Join(<<", ">>, pa.print),
           <<"KEY _Keywords: ">> \o Join(<<", ">>, self.kw_match) \o <<", ">>
              \o Join(<<", ">>, self.author_match) \o <<"_">> >>
          \o (IF abstract THEN <<self.abstract>> ELSE <<>>)
  IN  [text |-> Join(<<"\n\n">>, md_list),
       self |-> [self EXCEPT !.authors = pa.stored]]

\* ------------------------------------------------------------------ yaml
\* Code-point order of the atoms that occur in dict keys.
AtomOrder == <<" ", "A", "B", "Q", "a", "authors", "b", "keywords", "q">>
AtomRank(a) == CHOOSE i \in 1..Len(AtomOrder) : AtomOrder[i] = a

\* s < t on str.
RECURSIVE StrLess(_, _)
StrLess(s, t) ==
  IF Len(t) = 0 THEN FALSE
  ELSE IF Len(s) = 0 THEN TRUE
  ELSE IF s[1] = t[1] THEN StrLess(Tail(s), Tail(t))
  ELSE AtomRank(s[1]) < AtomRank(t[1])

\* The pairs of a dict sorted by key (yaml.dump sorts the keys of a mapping).
RECURSIVE SortDict(_)
SortDict(d) ==
  IF Len(d) = 0 THEN <<>>
  ELSE LET m == CHOOSE i \in 1..Len(d) : \A j \in 1..Len(d) : ~StrLess(d[j][1], d[i][1])
           rest == SubSeq(d, 1, m - 1) \o SubSeq(d, m + 1, Len(d))
       IN  <<d[m]>> \o SortDict(rest)

\* A file: absent, or a text that yaml parses or not.  A parsed document is
\* null (an empty file), a scalar, or a mapping of section names to tables.
AbsentFile == [exists |-> FALSE, parses |-> FALSE, kind |-> "null", map |-> <<>>]
GarbageFile == [exists |-> TRUE, parses |-> FALSE, kind |-> "null", map |-> <<>>]
Doc(kind, map) == [exists |-> TRUE, parses |-> TRUE, kind |-> kind, map |-> map]

\* open(...) + yaml.load(f): raises on a missing file or a YAML syntax error.
YamlLoadRaises(file) == ~file.exists \/ ~file.parses
YamlLoad(file) == [kind |-> file.kind, map |-> file.map]

\* yaml.dump(value, f): mappings are written with their keys sorted.
YamlDump(value) ==
  Doc(value.kind,
      SortDict([i \in 1..Len(value.map) |->
                  <<value.map[i][1], SortDict(value.map[i][2])>>]))

\* all_keywords[name] raises TypeError (None, scalar) or KeyError.
SubscriptRaises(value, name) == value.kind # "map" \/ ~HasKey(value.map, name)

\* ---------------------------------------------------------------- inputs
\* Tables of the keyword file: str -> int, in file order.
KeywordPool ==
  { <<>>,
    << <<(<<"q">>), 2>> >>,
    << <<(<<"q">>), 2>>, <<(<<"Q", "b">>), 1>> >>,
    << <<(<<"b">>), 0 - 1>>, <<(<<"q">>), 3>> >>,
    << <<(<<"B", "q">>), 1>>, <<(<<"b", "q">>), 2>> >> }
AuthorPool ==
  { <<>>,
    << <<(<<"b">>), 1>> >>,
    << <<(<<"a", " ", "B">>), 2>>, <<(<<"A">>), 1>> >> }

TitleAtoms == {"q", "Q", "b"}
Names == {<<"a">>, <<"B">>}
Thresholds == {2, 3}

\* All sequences over S of a length in lo..hi.
SeqsOf(S, lo, hi) == UNION {[1..n -> S] : n \in lo..hi}

\* The text of the title, author and abstract elements of one listing entry,
\* as get_text() returns them: an 8 (10) character wrapper before and one
\* character after.
TitleText(title) == <<"\n", "T", "i", "t", "l", "e", ":", " ">> \o title \o <<"\n">>
AuthorsText(names) ==
  <<"\n", "A", "u", "t", "h", "o", "r", "s", ":", "\n">>
    \o Join(<<",", " ", "\n">>, names) \o <<"\n">>
Meta(title, names) ==
  [title |-> Some(TitleText(title)), authors |-> Some(AuthorsText(names)),
   abstract |-> Some(<<"Abstract.">>)]

\* ----------------------------------------------------------------- state
VARIABLES
  pc,               \* where the process is
  weekday,          \* datetime.date.today().weekday()
  date,             \* days since the process started
  nextRun,          \* the date of the scheduled job's next run
  primary,          \* the file CONFIG["keywords_file"]
  backup,           \* the file keywords.backup
  summariesDir,     \* whether the directory summaries exists
  digest,           \* the file summaries/{day}_{month}_{year}.md of today
  errorFile,        \* the file summaries/error_{day}_{month}_{year}.html of today
  threshold,        \* CONFIG["threshold"]
  include_abstract, \* CONFIG["include_abstract"]
  KEYWORDS,         \* Paper.KEYWORDS
  AUTHORS,          \* Paper.AUTHORS
  r,                \* the response of requests.get, None before it
  soup_yesterday,   \* the listing found in the page, None when there is none
  yesterday,        \* the local yesterday (the target date), None before line 140
  idx,              \* the position of the for loop in the zipped entries
  papers,           \* the local list papers
  md_list,          \* the local list md_list
  soup_paper,       \* the entry a Paper is constructed from
  p,                \* the Paper constructed last, None before
  out,              \* what get_mrkdwn_text returned last, None before
  effects,          \* the file writes and network calls of the current run
  outcome,          \* how the last run of write_summary ended
  ret,              \* what the last run of write_summary returned, None if nothing
  all_keywords,     \* what load_keywords returned in this run, None before
  backupBefore      \* keywords.backup as it was when load_keywords was called

vars ==
  <<pc, weekday, date, nextRun, primary, backup, summariesDir, digest, errorFile,
    threshold, include_abstract, KEYWORDS, AUTHORS, r, soup_yesterday, yesterday, idx,
    papers, md_list, soup_paper, p, out, effects, outcome, ret, all_keywords, backupBefore>>

processVars ==
  <<pc, weekday, date, nextRun, primary, backup, summariesDir, digest, errorFile,
    r, soup_yesterday, yesterday, idx, papers, md_list, effects, outcome, ret,
    all_keywords, backupBefore>>

\* ------------------------------------------------- the class Paper alone
\* Paper.__init__ and Paper.get_mrkdwn_text on every entry, table and
\* threshold of the input sets; the process itself stands still.
InitProcessIdle ==
  /\ pc = "paper"
  /\ weekday = 0 /\ date = 0 /\ nextRun = 0
  /\ primary = AbsentFile /\ backup = AbsentFile
  /\ summariesDir = FALSE /\ digest = None /\ errorFile = None
  /\ r = None /\ soup_yesterday = None /\ yesterday = None /\ idx = 0
  /\ papers = <<>> /\ md_list = <<>> /\ effects = <<>> /\ outcome = "none" /\ ret = None
  /\ all_keywords = None /\ backupBefore = AbsentFile

InitPaper ==
  /\ InitProcessIdle
  /\ include_abstract \in BOOLEAN
  /\ \/ /\ KEYWORDS \in KeywordPool
        /\ AUTHORS \in AuthorPool
        /\ threshold \in Thresholds
        /\ \E title \in SeqsOf(TitleAtoms, 0, MaxTitleLen), names \in SeqsOf(Names, 1, 2) :
             soup_paper = Meta(title, names)
     \/ /\ KEYWORDS = << <<(<<"q">>), 2>> >>
        /\ AUTHORS = << <<(<<"b">>), 1>> >>
        /\ threshold = 2
        /\ \E names \in SeqsOf(Names, 3, MaxAuthors) :
             soup_paper = Meta(<<"q">>, names)
  /\ p = None
  /\ out = None

\* p = Paper(ref, soup_paper)
Construct ==
  /\ pc = "paper"
  /\ p = None
  /\ ~PaperInitRaises(soup_paper)
  /\ p' = Some(PaperInit(<<"2301.00001">>, soup_paper, KEYWORDS, AUTHORS, threshold))
  /\ UNCHANGED <<processVars, threshold, include_abstract, KEYWORDS, AUTHORS, soup_paper, out>>

\* p.get_mrkdwn_text(CONFIG["include_abstract"])
Render ==
  /\ pc = "paper"
  /\ p # None
  /\ out = None
  /\ LET res == get_mrkdwn_text(p[1], include_abstract)
     IN  /\ out' = Some(res.text)
         /\ p' = Some(res.self)
  /\ UNCHANGED <<processVars, threshold, include_abstract, KEYWORDS, AUTHORS, soup_paper>>

NextPaper == Construct \/ Render

SpecPaper == InitPaper /\ [][NextPaper]_vars

\* ------------------------------------------------------- process inputs
Section(name) == <<name>>
GoodDoc1 ==
  Doc("map", << <<Section("keywords"), << <<(<<"q">>), 2>>, <<(<<"B">>), 1>> >> >>,
                <<Section("authors"), << <<(<<"b">>), 1>> >> >> >>)
GoodDoc2 ==
  Doc("map", << <<Section("authors"), <<>> >>,
                <<Section("keywords"), << <<(<<"b">>), 0 - 1>> >> >> >>)
OnlyKeywordsDoc == Doc("map", << <<Section("keywords"), << <<(<<"q">>), 2>> >> >> >>)
NullDoc == Doc("null", <<>>)

\* What the keyword file may hold when load_keywords opens it.
PrimaryFiles == {AbsentFile, GarbageFile, NullDoc, OnlyKeywordsDoc, GoodDoc1, GoodDoc2}
\* keywords.backup at process start: absent, or written by an earlier process.
StartBackups == {AbsentFile, YamlDump(YamlLoad(GoodDoc1))}
StartWeekdays == {3, 4, 5, 6}

\* The div.meta elements of a listing: two well-formed ones and one without
\* its title element.
MetaPool ==
  { Meta(<<"q">>, << <<"a">> >>),
    Meta(<<"Q">>, << <<"a">>, <<"B">> >>),
    [title |-> None, authors |-> Some(AuthorsText(<< <<"a">> >>)),
     abstract |-> Some(<<"Abstract.">>)] }

IdAtom == <<"id1", "id2", "id3", "id4">>
\* The span.list-identifier elements: the href of the a element of each.
Links(n) == [i \in 1..n |-> Some(<<"/", "a", "b", "s", "/", IdAtom[i]>>)]

\* The pages requests.get may return: no h2; an h2 with no dl after it; an
\* h2 and a dl of entries.
NoHeadingPage == [h2 |-> FALSE, dl |-> None]
NoListPage == [h2 |-> TRUE, dl |-> None]
ListingPage(metas, links) == [h2 |-> TRUE, dl |-> Some([metas |-> metas, links |-> links])]
Pages ==
  {NoHeadingPage, NoListPage}
    \cup {ListingPage(m, Links(Len(m))) : m \in SeqsOf(MetaPool, 0, MaxEntries)}
    \cup {ListingPage(m, Links(Len(m) - 1)) : m \in SeqsOf(MetaPool, MaxEntries, MaxEntries)}

DeliveryOutcomes == {"ok", "SlackApiError", "OtherError"}

\* The first element of md_list; NEWS stands for its newspaper emoji, as KEY
\* in get_mrkdwn_text stands for the key emoji.
Header == <<"NEWS *Today's Relevant Papers*">>
Separator == <<"\n\n-----------------------\n\n">>

\* zip(a, b)
Zip(a, b) == [i \in 1..Min(Len(a), Len(b)) |-> <<a[i], b[i]>>]
Entries(dl) == Zip(dl.metas, dl.links)

\* ------------------------------------------------------------ the process
\* load_keywords: whether it raises, what it returns and what it leaves in
\* keywords.backup.
load_keywords(primaryFile, backupFile) ==
  LET fallback == YamlLoadRaises(primaryFile)
      value == IF fallback THEN YamlLoad(backupFile) ELSE YamlLoad(primaryFile)
  IN  IF fallback /\ YamlLoadRaises(backupFile)
      THEN [raises |-> TRUE, value |-> None, backup |-> backupFile]
      ELSE [raises |-> FALSE, value |-> Some(value), backup |-> YamlDump(value)]

Init ==
  /\ pc = "main"
  /\ weekday \in StartWeekdays
  /\ date = 0
  /\ nextRun \in {0, 1}
  /\ primary \in PrimaryFiles
  /\ backup \in StartBackups
  /\ summariesDir \in BOOLEAN
  /\ digest = None /\ errorFile = None
  /\ threshold \in Thresholds
  /\ include_abstract \in BOOLEAN
  /\ KEYWORDS = <<>> /\ AUTHORS = <<>>
  /\ r = None /\ soup_yesterday = None /\ yesterday = None /\ idx = 0
  /\ papers = <<>> /\ md_list = <<>>
  /\ soup_paper = Meta(<<>>, <<>>) /\ p = None /\ out = None
  /\ effects = <<>> /\ outcome = "none" /\ ret = None
  /\ all_keywords = None /\ backupBefore = AbsentFile

paperVars == <<soup_paper, p, out>>
config == <<threshold, include_abstract>>
clock == <<weekday, date>>
files == <<primary, backup, summariesDir, digest, errorFile>>
locals == <<r, soup_yesterday, yesterday, idx, papers, md_list>>

\* A call of write_summary starts: fresh locals.
BeginRun ==
  /\ pc' = "load_keywords"
  /\ r' = None /\ soup_yesterday' = None /\ yesterday' = None /\ idx' = 0
  /\ papers' = <<>> /\ md_list' = <<>>
  /\ effects' = <<>> /\ outcome' = "running" /\ ret' = None
  /\ all_keywords' = None
  /\ UNCHANGED <<backupBefore, files, clock, config, KEYWORDS, AUTHORS, paperVars>>

\* write_summary returns value v to its caller, which goes on to the
\* scheduler loop.
Return(v, how) == pc' = "sched" /\ ret' = Some(v) /\ outcome' = how

\* An exception leaves write_summary; neither line 187 nor the loop of
\* lines 189-191 catches it, so it ends the process.
Raise(what) == pc' = "crashed" /\ ret' = None /\ outcome' = what

\* Line 187: the run at process start.
Start ==
  /\ pc = "main"
  /\ BeginRun
  /\ UNCHANGED nextRun

\* schedule.run_pending() finds the daily job due and runs it.
RunPending ==
  /\ pc = "sched"
  /\ nextRun <= date
  /\ nextRun' = date + 1
  /\ BeginRun

\* sleep(60) across midnight, the day's job done: the files named after the
\* new date do not exist yet.
Midnight ==
  /\ pc = "sched"
  /\ nextRun > date
  /\ date < MaxDate
  /\ date' = date + 1
  /\ weekday' = (weekday + 1) % 7
  /\ digest' = None /\ errorFile' = None
  /\ UNCHANGED <<pc, nextRun, primary, backup, summariesDir, config, KEYWORDS, AUTHORS,
                 locals, effects, outcome, ret, all_keywords, backupBefore, paperVars>>

\* The user edits the keyword file while the process sleeps.
EditKeywords ==
  /\ pc = "sched"
  /\ \E f \in PrimaryFiles : f # primary /\ primary' = f
  /\ UNCHANGED <<pc, nextRun, clock, backup, summariesDir, digest, errorFile, config,
                 KEYWORDS, AUTHORS, locals, effects, outcome, ret, all_keywords,
                 backupBefore, paperVars>>

\* Lines 135-137: load_keywords() and the two subscripts of its result.
LoadKeywords ==
  /\ pc = "load_keywords"
  /\ backupBefore' = backup
  /\ LET res == load_keywords(primary, backup)
     IN  IF res.raises
         THEN /\ Raise("raised: no keyword data")
              /\ UNCHANGED <<backup, effects, all_keywords, KEYWORDS, AUTHORS>>
         ELSE /\ backup' = res.backup
              /\ effects' = Append(effects, "write keywords.backup")
              /\ all_keywords' = res.value
              /\ IF SubscriptRaises(res.value[1], Section("keywords"))
                 THEN /\ Raise("raised: all_keywords['keywords']")
                      /\ UNCHANGED <<KEYWORDS, AUTHORS>>
                 ELSE /\ KEYWORDS' = Lookup(res.value[1].map, Section("keywords"))
                      /\ IF SubscriptRaises(res.value[1], Section("authors"))
                         THEN /\ Raise("raised: all_keywords['authors']")
                              /\ UNCHANGED AUTHORS
                         ELSE /\ AUTHORS' = Lookup(res.value[1].map, Section("authors"))
                              /\ pc' = "check_weekend"
                              /\ UNCHANGED <<ret, outcome>>
  /\ UNCHANGED <<nextRun, clock, primary, summariesDir, digest, errorFile, config,
                 locals, paperVars>>

\* Lines 140-143.
CheckWeekend ==
  /\ pc = "check_weekend"
  /\ yesterday' = Some(date)
  /\ IF weekday >= 5
     THEN Return(0, "SkippedWeekend")
     ELSE pc' = "fetch" /\ UNCHANGED <<ret, outcome>>
  /\ UNCHANGED <<nextRun, clock, files, config, KEYWORDS, AUTHORS, r, soup_yesterday, idx,
                 papers, md_list, effects, all_keywords, backupBefore, paperVars>>

\* Line 153: requests.get answers with some page.
Fetch ==
  /\ pc = "fetch"
  /\ \E page \in Pages : r' = Some(page)
  /\ effects' = Append(effects, "GET arxiv.org/catchup")
  /\ pc' = "find_listing"
  /\ UNCHANGED <<nextRun, clock, files, config, KEYWORDS, AUTHORS, soup_yesterday,
                 yesterday, idx, papers, md_list, outcome, ret, all_keywords,
                 backupBefore, paperVars>>

\* Line 153: requests.get raises (no connection).
FetchFails ==
  /\ pc = "fetch"
  /\ effects' = Append(effects, "GET arxiv.org/catchup")
  /\ Raise("raised: requests.get")
  /\ UNCHANGED <<nextRun, clock, files, config, KEYWORDS, AUTHORS, locals,
                 all_keywords, backupBefore, paperVars>>

\* Lines 154-165: find('h2') is None on a page with no heading, and the
\* AttributeError is caught; open(error_file, 'w') needs the directory.
FindListing ==
  /\ pc = "find_listing"
  /\ IF ~r[1].h2
     THEN /\ IF summariesDir
             THEN /\ errorFile' = r
                  /\ effects' = Append(effects, "write error file")
                  /\ Return(1, "SkippedNoListing")
             ELSE /\ Raise("raised: open(error_file)")
                  /\ UNCHANGED <<errorFile, effects>>
          /\ UNCHANGED <<soup_yesterday, idx, papers, md_list>>
     ELSE /\ soup_yesterday' = r[1].dl
          /\ papers' = <<>>
          /\ md_list' = <<Header>>
          /\ idx' = 1
          /\ pc' = "loop"
          /\ UNCHANGED <<errorFile, effects, ret, outcome>>
  /\ UNCHANGED <<nextRun, clock, primary, backup, summariesDir, digest, config, KEYWORDS,
                 AUTHORS, r, yesterday, all_keywords, backupBefore, paperVars>>

\* A loop that skips an entry no Paper can be constructed from.
LoopEntrySkipsBadEntry ==
  /\ pc = "loop"
  /\ IF soup_yesterday = None
     THEN /\ Raise("raised: soup_yesterday.find_all")
          /\ UNCHANGED <<idx, papers, md_list>>
     ELSE /\ idx <= Len(Entries(soup_yesterday[1]))
          /\ LET meta == Entries(soup_yesterday[1])[idx][1]
                 link == Entries(soup_yesterday[1])[idx][2]
             IN  IF PaperInitRaises(meta)
                 THEN /\ idx' = idx + 1
                      /\ UNCHANGED <<pc, ret, outcome, papers, md_list>>
                 ELSE LET paper == PaperInit(SliceFrom(link[1], 5), meta, KEYWORDS,
                                             AUTHORS, threshold)
                          res == get_mrkdwn_text(paper, include_abstract)
                      IN  /\ papers' = Append(papers, IF paper.is_relevant THEN res.self ELSE paper)
                          /\ md_list' = IF paper.is_relevant
                                        THEN Append(md_list, res.text)
                                        ELSE md_list
                          /\ idx' = idx + 1
                          /\ UNCHANGED <<pc, ret, outcome>>
  /\ UNCHANGED <<nextRun, clock, files, config, KEYWORDS, AUTHORS, r, soup_yesterday,
                 yesterday, effects, all_keywords, backupBefore, paperVars>>

\* Lines 166-171, one pass of the for loop; soup_yesterday.find_all raises
\* when findNext('dl') found nothing.
LoopEntry ==
  /\ pc = "loop"
  /\ IF soup_yesterday = None
     THEN /\ Raise("raised: soup_yesterday.find_all")
          /\ UNCHANGED <<idx, papers, md_list>>
     ELSE /\ idx <= Len(Entries(soup_yesterday[1]))
          /\ LET meta == Entries(soup_yesterday[1])[idx][1]
                 link == Entries(soup_yesterday[1])[idx][2]
             IN  IF PaperInitRaises(meta)
                 THEN /\ Raise("raised: Paper.__init__")
                      /\ UNCHANGED <<idx, papers, md_list>>
                 ELSE LET paper == PaperInit(SliceFrom(link[1], 5), meta, KEYWORDS,
                                             AUTHORS, threshold)
                          res == get_mrkdwn_text(paper, include_abstract)
                      IN  /\ papers' = Append(papers, IF paper.is_relevant THEN res.self ELSE paper)
                          /\ md_list' = IF paper.is_relevant
                                        THEN Append(md_list, res.text)
                                        ELSE md_list
                          /\ idx' = idx + 1
                          /\ UNCHANGED <<pc, ret, outcome>>
  /\ UNCHANGED <<nextRun, clock, files, config, KEYWORDS, AUTHORS, r, soup_yesterday,
                 yesterday, effects, all_keywords, backupBefore, paperVars>>

\* Lines 174-181, the loop over: the directory is made if absent and the
\* digest written.
Save ==
  /\ pc = "loop"
  /\ soup_yesterday # None
  /\ idx > Len(Entries(soup_yesterday[1]))
  /\ summariesDir' = TRUE
  /\ digest' = Some(Join(Separator, md_list))
  /\ effects' = effects \o (IF summariesDir THEN <<>> ELSE <<"makedirs summaries">>)
                        \o <<"write digest">>
  /\ pc' = "send"
  /\ UNCHANGED <<nextRun, clock, primary, backup, errorFile, config, KEYWORDS, AUTHORS,
                 locals, outcome, ret, all_keywords, backupBefore, paperVars>>

\* A send_slack_message with no except clause.
send_slack_message_NoExcept(o) ==
  [raises |-> o # "ok",
   effect |-> IF o = "ok" THEN "chat_postMessage: ok"
              ELSE IF o = "SlackApiError" THEN "chat_postMessage: SlackApiError logged"
              ELSE "chat_postMessage: exception"]

\* send_slack_message: what chat_postMessage does with the digest; only a
\* SlackApiError is caught.
send_slack_message(o) ==
  [raises |-> o = "OtherError",
   effect |-> IF o = "ok" THEN "chat_postMessage: ok"
              ELSE IF o = "SlackApiError" THEN "chat_postMessage: SlackApiError logged"
              ELSE "chat_postMessage: exception"]

\* Lines 183-184.
Send ==
  /\ pc = "send"
  /\ \E o \in DeliveryOutcomes :
       LET res == send_slack_message(o)
       IN  /\ effects' = Append(effects, res.effect)
           /\ IF res.raises THEN Raise("raised: send_slack_message") ELSE Return(0, "Done")
  /\ UNCHANGED <<nextRun, clock, files, config, KEYWORDS, AUTHORS, locals,
                 all_keywords, backupBefore, paperVars>>

Next ==
  \/ Start
  \/ RunPending
  \/ Midnight
  \/ EditKeywords
  \/ LoadKeywords
  \/ CheckWeekend
  \/ Fetch
  \/ FetchFails
  \/ FindListing
  \/ LoopEntry
  \/ Save
  \/ Send

Spec == Init /\ [][Next]_vars

\* ---------------------------------------------------- claims on class Paper
\* key occurs in hay at some position, letter case ignored.
OccursIgnoringCase(key, hay) ==
  \E i \in 0..(Len(hay) - Len(key)) :
    \A j \in 1..Len(key) : LowerAtom(hay[i + j]) = LowerAtom(key[j])

\* The sum of the weights of the entries of table d at the positions in S.
RECURSIVE SumAt(_, _)
SumAt(S, d) ==
  IF S = {} THEN 0
  ELSE LET i == CHOOSE k \in S : TRUE IN d[i][2] + SumAt(S \ {i}, d)

MatchingEntries(d, hay) == {i \in 1..Len(d) : OccursIgnoringCase(d[i][1], hay)}

\* C6: the weight of a constructed paper is the sum of the weights of the
\* keyword-table entries that occur, letter case ignored, as substrings of its
\* title plus the sum of the weights of the author-table entries that occur in
\* its space-joined author list, every matching entry counted exactly once;
\* with an empty author table there are no author matches.
C6_WeightIsSumOfMatches ==
  (pc = "paper" /\ p # None) =>
    LET paper == p[1]
        kws == MatchingEntries(KEYWORDS, paper.title)
        aus == MatchingEntries(AUTHORS, Join(<<" ">>, paper.authors))
    IN  /\ paper.weight = SumAt(kws, KEYWORDS) + SumAt(aus, AUTHORS)
        /\ Len(paper.kw_match) = Cardinality(kws)
        /\ {paper.kw_match[i] : i \in 1..Len(paper.kw_match)} = {KEYWORDS[i][1] : i \in kws}
        /\ Len(paper.author_match) = Cardinality(aus)
        /\ {paper.author_match[i] : i \in 1..Len(paper.author_match)} = {AUTHORS[i][1] : i \in aus}
        /\ (AUTHORS = <<>> => paper.author_match = <<>>)

\* A paper whose title holds the keyword q twice, in both cases, and whose
\* author list matches the author entry b: the weight is 2 + 1.
C6_Witness ==
  /\ pc = "paper" /\ p # None
  /\ p[1].title = <<"q", "Q">>
  /\ KEYWORDS = << <<(<<"q">>), 2>> >>
  /\ p[1].kw_match = <<(<<"q">>)>>
  /\ p[1].author_match = <<(<<"b">>)>>
  /\ p[1].weight = 3

\* The author list as Paper.__init__ stored it.
ConstructedAuthors ==
  PaperInit(<<"2301.00001">>, soup_paper, KEYWORDS, AUTHORS, threshold).authors

\* The author list the chat-markup rendering is to show.
ExpectedPrintAuthors(authors) ==
  IF Len(authors) > 9
  THEN [i \in 1..11 |-> IF i <= 9 THEN authors[i]
                        ELSE IF i = 10 THEN <<"...">>
                        ELSE authors[Len(authors)]]
  ELSE authors

\* The authors line of a rendered text: its second paragraph.
AuthorsLine(text) == Split(text, <<"\n\n">>)[2]

\* C8: the chat-markup rendering of a paper with more than 9 authors lists
\* the first 9 authors in order, an ellipsis marker and the final author, that
\* of a paper with 9 or fewer lists all authors in order with no ellipsis, and
\* rendering leaves the paper's stored author list unchanged.
C8_MrkdwnAuthorList ==
  (pc = "paper" /\ out # None) =>
    /\ AuthorsLine(out[1]) =
         <<"Authors: ">> \o Join(<<", ">>, ExpectedPrintAuthors(ConstructedAuthors))
    /\ (Len(ConstructedAuthors) <= 9 => ~In(<<"...">>, AuthorsLine(out[1])))
    /\ p[1].authors = ConstructedAuthors

\* A paper with 12 authors has been rendered.
C8_Witness ==
  /\ pc = "paper" /\ out # None
  /\ Len(p[1].authors) = 12
  /\ In(<<"...">>, AuthorsLine(out[1]))

\* --------------------------------------------------- claims on the process
Has(log, e) == \E i \in 1..Len(log) : log[i] = e
Posts == {"chat_postMessage: ok", "chat_postMessage: SlackApiError logged",
          "chat_postMessage: exception"}
PostCount(log) == Cardinality({i \in 1..Len(log) : log[i] \in Posts})

\* C1: a run on a weekend day ends in SkippedWeekend having written no file
\* (no digest, no error file, no keyword backup) and made no network call.
C1_WeekendNoSideEffects ==
  outcome = "SkippedWeekend" => effects = <<>>

\* C2: a failure to construct a Paper from a listing entry aborts the run
\* only: the process lives on, in the scheduler loop or in a later run.
C2_ParseFailureKeepsScheduler ==
  outcome = "raised: Paper.__init__" => pc # "crashed"

\* C3: whenever the fetched page has no section heading, with or without a
\* summaries directory, the run ends in SkippedNoListing: the raw page is in
\* the error file, no digest is written, nothing is delivered, and
\* write_summary returns instead of raising.
C3_NoListingSkips ==
  (r # None /\ ~r[1].h2 /\ pc # "find_listing") =>
    /\ pc = "sched"
    /\ outcome = "SkippedNoListing"
    /\ Has(effects, "write error file")
    /\ ~Has(effects, "write digest")
    /\ PostCount(effects) = 0

\* Whether a parsed document yields the two tables keywords and authors.
HasBothTables(value) ==
  /\ ~SubscriptRaises(value, Section("keywords"))
  /\ ~SubscriptRaises(value, Section("authors"))
PrimaryFails ==
  YamlLoadRaises(primary) \/ ~HasBothTables(YamlLoad(primary))
\* Equality of two loaded documents as Python compares dicts: order ignored.
SameDocument(a, b) == YamlDump(a) = YamlDump(b)

\* C4: when the primary keyword file fails (missing, unparseable, or not
\* yielding the two tables) load_keywords returns the tables of the backup
\* copy; when the backup is unreadable too the error propagates and the run
\* never fetches.
C4_FallbackOnAnyPrimaryFailure ==
  /\ (/\ pc \notin {"main", "sched", "load_keywords"}
      /\ PrimaryFails
      /\ ~YamlLoadRaises(backupBefore)) =>
       /\ all_keywords # None
       /\ SameDocument(all_keywords[1], YamlLoad(backupBefore))
  /\ (outcome = "raised: no keyword data" =>
        pc = "crashed" /\ ~Has(effects, "GET arxiv.org/catchup"))

\* C10: keywords.backup, once the program has written it, always holds the
\* two tables keywords and authors, so a fallback load returns usable tables.
C10_BackupHoldsBothTables ==
  backup.exists => (~YamlLoadRaises(backup) /\ HasBothTables(YamlLoad(backup)))

\* The papers of a listing, every entry constructed.
ListedPapers(dl) ==
  [i \in 1..Len(Entries(dl)) |->
     PaperInit(SliceFrom(Entries(dl)[i][2][1], 5), Entries(dl)[i][1], KEYWORDS, AUTHORS,
               threshold)]

\* The header followed, for each paper of l whose weight reaches the
\* threshold, by the separator and the paper's rendered section.
RECURSIVE SectionsOf(_)
SectionsOf(l) ==
  IF Len(l) = 0 THEN <<>>
  ELSE (IF l[1].weight >= threshold
        THEN Separator \o get_mrkdwn_text(l[1], include_abstract).text
        ELSE <<>>) \o SectionsOf(Tail(l))
ExpectedDigest(dl) == Header \o SectionsOf(ListedPapers(dl))

C9_DeliverOnceAfterCompleteDigest ==
  /\ PostCount(effects) <= 1
  /\ \A i \in 1..Len(effects) :
       effects[i] \in Posts =>
         /\ \E j \in 1..(i - 1) : effects[j] = "write digest"
         /\ soup_yesterday # None
         /\ Len(papers) = Len(Entries(soup_yesterday[1]))
  /\ (Has(effects, "write digest") =>
        soup_yesterday # None /\ Len(papers) = Len(Entries(soup_yesterday[1])))
  /\ (outcome \in {"SkippedWeekend", "SkippedNoListing", "raised: Paper.__init__"} =>
        ~Has(effects, "write digest") /\ PostCount(effects) = 0)

\* A run that parsed one entry and failed on the next: nothing written to
\* summaries, nothing delivered.
C9_Witness ==
  /\ outcome = "raised: Paper.__init__"
  /\ Len(papers) = 1
  /\ ~Has(effects, "write digest")
  /\ PostCount(effects) = 0
====
